---- MODULE Spec2Model ----
(***************************************************************************)
(* State-machine model of the capstone-rs binding layer (src/handle.rs,    *)
(* src/ffi.rs): the engine handle and its builder, the batch disassembler  *)
(* with its owning Instructions buffer, the streaming walker, and the      *)
(* accessors of a record's detail block and its operands.                  *)
(*                                                                         *)
(* The foreign engine (libcapstone, the extern "C" block of ffi.rs) is the *)
(* environment: its status codes are drawn from small sets, and its        *)
(* decoder is a small fixed opcode table.                                  *)
(***************************************************************************)
EXTENDS Integers, Sequences, FiniteSets, TLC

VARIABLES
    builder,    \* the HandleBuilder value the caller holds, if any
    engines,    \* the engine instances cs_open has created
    handles,    \* the Handle values the caller holds (slot -> raw csh)
    arrays,     \* the record arrays cs_disasm has allocated
    buffers,    \* the Instructions values the caller holds
    walk,       \* the walk_insts call in progress or last finished
    last,       \* outcome of the API call that has just returned
    trace,      \* engine calls issued by the current / last API call
    held,       \* the record view and the InstructionIterator the caller holds
    pc          \* "idle" | "returned" | "step" | "visit" | "free" | "crashed"

vars == <<builder, engines, handles, arrays, buffers, walk, last, trace, held, pc>>

----------------------------------------------------------------------------
(* Bounds of the model *)

MaxEngines == 2     \* engine instances cs_open may create
MaxLen     == 2     \* length of the input code, in bytes
MaxCount   == 2     \* largest requested max_count
MaxText    == 3     \* bytes of a text field in front of its terminating NUL

EngineIds == 1..MaxEngines
\* The caller's variables for Handle values: one per engine instance.
HandleSlots == 1..MaxEngines
\* The caller this model drives holds one decoded array at a time; its
\* second variable for Instructions values is where a second owner of the
\* array goes.
ArrayIds == {1}
BufferSlots == {1, 2}

Vacant == 0         \* a caller variable holding no Handle (raw handles are non-zero)
NullPtr == 0        \* ptr::null()

----------------------------------------------------------------------------
(* Constants of the binding *)

CS_OPT_OFF == 0
CS_OPT_ON == 3

OK == "CS_ERR_OK"
OpenResults == {OK, "CS_ERR_MEM", "CS_ERR_ARCH"}
OptionResults == {OK, "CS_ERR_OPTION", "CS_ERR_CSH"}
BaseAddrs == {4096}
\* CsArch values of the three architectures whose detail layout is bound
Archs == {"ARCH_X86", "ARCH_ARM", "ARCH_PPC"}

----------------------------------------------------------------------------
(* The foreign decoder: a fixed opcode table standing for the engine.      *)
(* 0x55 push (1 byte), 0x6a push imm8 (2 bytes), 0x48 mov (7 bytes, as in  *)
(* 48 8b 05 disp32); every other byte is undecodable, and so is an         *)
(* instruction cut short by the end of the input.                          *)

ModelBytes == {85, 106}

InsnSize(b) ==
    CASE b = 85 -> 1
      [] b = 106 -> 2
      [] b = 72 -> 7
      [] OTHER -> 0

Mnemonic(b) ==
    CASE b = 85 -> "push"
      [] b = 106 -> "push"
      [] b = 72 -> "mov"
      [] OTHER -> "(bad)"

InsnId(b) ==
    CASE b = 85 -> 588
      [] b = 106 -> 588
      [] b = 72 -> 449
      [] OTHER -> 0

\* Insn.detail: a null pointer, or a pointer to the detail block the engine
\* filled in; the block holds the payload of the engine's architecture.
NullDetail == [null |-> TRUE, arch |-> "none"]

NoRecord == [ok |-> FALSE, id |-> 0, address |-> 0, size |-> 0, mnemonic |-> "",
             detail |-> NullDetail]

\* One decode at byte offset off (0-based) of code, address being the
\* address of that byte. With skipdata ON an undecodable or truncated byte yields a data
\* record of id 0 and size 1.
DecodeAt(code, off, address, skipdata) ==
    IF off >= Len(code) THEN NoRecord
    ELSE LET b == code[off + 1]
             sz == InsnSize(b)
         IN  IF sz > 0 /\ off + sz <= Len(code)
             THEN [ok |-> TRUE, id |-> InsnId(b), address |-> address,
                   size |-> sz, mnemonic |-> Mnemonic(b), detail |-> NullDetail]
             ELSE IF skipdata
             THEN [ok |-> TRUE, id |-> 0, address |-> address,
                   size |-> 1, mnemonic |-> ".byte", detail |-> NullDetail]
             ELSE NoRecord

\* The records a batch decode produces from offset off on; cap = 0 means
\* no cap, cap = N > 0 stops after N records.
RECURSIVE DecodeFrom(_, _, _, _, _, _)
DecodeFrom(code, off, addr, skipdata, cap, done) ==
    LET r == DecodeAt(code, off, addr, skipdata)
    IN  IF ~r.ok \/ (cap > 0 /\ done >= cap) THEN <<>>
        ELSE <<r>> \o DecodeFrom(code, off + r.size, addr + r.size, skipdata, cap, done + 1)

DecodeAll(code, addr, skipdata, cap) == DecodeFrom(code, 0, addr, skipdata, cap, 0)

\* The detail pointer of a record the engine eng hands out: with
\* CS_OPT_DETAIL on, an instruction carries a block of the engine's
\* architecture; whether a data record (id 0) is left with a block attached
\* is the engine's business (dataDetail).
EngineRecord(r, eng, dataDetail) ==
    IF r.ok /\ eng.detail /\ (r.id # 0 \/ dataDetail)
    THEN [r EXCEPT !.detail = [null |-> FALSE, arch |-> eng.arch]]
    ELSE r

EngineRecords(rs, eng, dataDetail) ==
    [i \in 1..Len(rs) |-> EngineRecord(rs[i], eng, dataDetail)]

RECURSIVE SeqsUpTo(_, _)
SeqsUpTo(S, n) ==
    IF n = 0 THEN {<<>>}
    ELSE LET shorter == SeqsUpTo(S, n - 1)
         IN  shorter \cup {Append(s, x) : s \in shorter, x \in S}

\* push rbp; mov rax, [rip + 0x13b8]
CODE == <<85, 72, 139, 5, 184, 19, 0, 0>>

Codes == SeqsUpTo(ModelBytes, MaxLen) \cup {CODE}

----------------------------------------------------------------------------
(* Insn::detail *)

\* detail() without the test of the id
Detail_IgnoresId(insn) == IF insn.detail.null THEN "None" ELSE "Some"

\* detail() answering None for every record
Detail_AlwaysNone(insn) == "None"

\* if self.detail.is_null() || self.id == 0 { None } else { Some(&*self.detail) }
Detail(insn) == IF insn.detail.null \/ insn.id = 0 THEN "None" ELSE "Some"

----------------------------------------------------------------------------
(* Engine calls as trace events *)

Ev(fn, h, arg, ret, live) == [fn |-> fn, h |-> h, arg |-> arg, ret |-> ret, live |-> live]

\* whether raw handle value h names an engine that is open right now
IsOpen(eng, h) == h \in EngineIds /\ eng[h].st = "open"

\* api: the wrapper that owns the instance, "handle" (Handle) or "capstone"
\* (the legacy Capstone)
NoEngine == [st |-> "none", closes |-> 0, detail |-> FALSE, skipdata |-> FALSE,
             arch |-> "none", api |-> "none"]
NoArray == [st |-> "none", n |-> 0, recs |-> <<>>, frees |-> 0, freedWith |-> 0,
            detailOn |-> FALSE]
NoBuffer == [live |-> FALSE, ptr |-> NullPtr, count |-> 0, via |-> ""]
\* `called` is history: the builder methods the chain has called so far.
NoBuilder == [live |-> FALSE, detail |-> FALSE, skipdata |-> FALSE, arch |-> "none",
              called |-> {}]
NoWalk == [h |-> 0, code |-> <<>>, off |-> 0, addr |-> 0, slot |-> "none",
           slotFrees |-> 0, steps |-> 0, visits |-> <<>>, cur |-> NoRecord,
           failed |-> FALSE, result |-> "none", dataDetail |-> FALSE, details |-> <<>>]
\* No view and no iterator: it is the buffer the iterator borrows (0: no
\* iterator), cur its position, item what next() returned last; kind is
\* "borrow" for an element of as_slice(), "copy" for a record next() yielded.
NoHeld == [it |-> 0, cur |-> 0, item |-> "none", kind |-> "none", slot |-> 0,
           ptr |-> NullPtr, idx |-> 0, insn |-> NoRecord]
NoLast == [op |-> "none", result |-> "none", err |-> "", ret |-> 0, req |-> 0,
           slot |-> 0, ptr |-> NullPtr, via |-> "", insn |-> NoRecord, detailOn |-> FALSE,
           view |-> <<>>, code |-> <<>>, called |-> {}]

\* The caller is between API calls. A builder chain
\* HandleBuilder::new(..).detail().skipdata().build() is one expression:
\* while the builder value exists the caller does nothing else.
Idle == pc = "idle" /\ ~builder.live

\* The caller this model drives decodes and walks while it holds one Handle
\* and no Instructions buffer.
OneHandle == Cardinality({s \in HandleSlots : handles[s] # Vacant}) = 1
NoBuffers == \A b \in BufferSlots : ~buffers[b].live

Init ==
    /\ builder = NoBuilder
    /\ engines = [e \in EngineIds |-> NoEngine]
    /\ handles = [s \in HandleSlots |-> Vacant]
    /\ arrays = [a \in ArrayIds |-> NoArray]
    /\ buffers = [b \in BufferSlots |-> NoBuffer]
    /\ walk = NoWalk
    /\ last = NoLast
    /\ trace = <<>>
    /\ held = NoHeld
    /\ pc = "idle"

----------------------------------------------------------------------------
(* cs_close: closing an open engine; closing the value 0 or an instance    *)
(* that is no longer open is counted on the instance (a double close).     *)

CsClose(eng, h) ==
    IF h \in EngineIds
    THEN [eng EXCEPT ![h] = [NoEngine EXCEPT !.st = "closed", !.closes = eng[h].closes + 1]]
    ELSE eng

----------------------------------------------------------------------------
(* HandleBuilder *)

BuilderNew(arch) ==
    /\ pc = "idle"
    /\ ~builder.live
    /\ builder' = [live |-> TRUE, detail |-> FALSE, skipdata |-> FALSE, arch |-> arch,
                   called |-> {}]
    /\ UNCHANGED <<engines, handles, arrays, buffers, walk, last, trace, pc, held>>

BuilderSkipdata ==
    /\ pc = "idle"
    /\ builder.live
    /\ builder' = [builder EXCEPT !.skipdata = TRUE, !.called = @ \cup {"skipdata"}]
    /\ UNCHANGED <<engines, handles, arrays, buffers, walk, last, trace, pc, held>>

\* detail() written as a toggle
BuilderDetail_Toggles ==
    /\ pc = "idle"
    /\ builder.live
    /\ builder' = [builder EXCEPT !.detail = ~@, !.called = @ \cup {"detail"}]
    /\ UNCHANGED <<engines, handles, arrays, buffers, walk, last, trace, pc, held>>

BuilderDetail ==
    /\ pc = "idle"
    /\ builder.live
    /\ builder' = [builder EXCEPT !.detail = TRUE, !.called = @ \cup {"detail"}]
    /\ UNCHANGED <<engines, handles, arrays, buffers, walk, last, trace, pc, held>>

OptVal(flag) == IF flag THEN CS_OPT_ON ELSE CS_OPT_OFF

\* build without the try! around the DETAIL option
BuildStops_IgnoresDetail(rOpen, rDet, rSkip) ==
    IF rOpen # OK THEN 1
    ELSE IF rSkip # OK THEN 3
    ELSE 0

\* How far build gets: the index of the first step the engine rejects
\* (1 open, 2 DETAIL, 3 SKIPDATA), 0 when none is rejected.
BuildStops(rOpen, rDet, rSkip) ==
    IF rOpen # OK THEN 1
    ELSE IF rDet # OK THEN 2
    ELSE IF rSkip # OK THEN 3
    ELSE 0

\* The value build returns.
BuildResult(rOpen, rDet, rSkip) ==
    LET k == BuildStops(rOpen, rDet, rSkip)
    IN  CASE k = 1 -> [result |-> "Err", err |-> rOpen]
          [] k = 2 -> [result |-> "Err", err |-> rDet]
          [] k = 3 -> [result |-> "Err", err |-> rSkip]
          [] OTHER -> [result |-> "Ok", err |-> ""]

\* build holding the raw csh instead of a Handle: nothing closes it
BuildDropsHandle_Leaks(rOpen, rDet, rSkip) == FALSE

\* Whether the Handle new_csh returned is dropped inside build (the early
\* returns of try! after a successful open).
BuildDropsHandle(rOpen, rDet, rSkip) == BuildStops(rOpen, rDet, rSkip) \in {2, 3}

\* The engine calls build issues, in order.
BuildCalls(e, b, rOpen, rDet, rSkip) ==
    LET k == BuildStops(rOpen, rDet, rSkip)
        open == <<Ev("cs_open", IF rOpen = OK THEN e ELSE 0, <<>>, rOpen, TRUE)>>
        det == <<Ev("cs_option", e, <<"CS_OPT_DETAIL", OptVal(b.detail)>>, rDet, TRUE)>>
        skip == <<Ev("cs_option", e, <<"CS_OPT_SKIPDATA", OptVal(b.skipdata)>>, rSkip, TRUE)>>
        close == IF BuildDropsHandle(rOpen, rDet, rSkip)
                 THEN <<Ev("cs_close", e, <<>>, OK, TRUE)>> ELSE <<>>
    IN  CASE k = 1 -> open
          [] k = 2 -> open \o det \o close
          [] k = 3 -> open \o det \o skip \o close
          [] OTHER -> open \o det \o skip

FreshEngines == {e \in EngineIds : engines[e].st = "none"}

\* The caller keeps what build returns in its first free variable.
FreeHandleSlot(s) == handles[s] = Vacant /\ \A t \in HandleSlots : t < s => handles[t] # Vacant

Build(s, rOpen, rDet, rSkip) ==
    /\ pc = "idle"
    /\ builder.live
    /\ FreeHandleSlot(s)
    /\ FreshEngines # {}
    /\ LET e == CHOOSE x \in FreshEngines : \A y \in FreshEngines : x <= y
           k == BuildStops(rOpen, rDet, rSkip)
           res == BuildResult(rOpen, rDet, rSkip)
           opened == [engines EXCEPT ![e] =
                        [st |-> "open", closes |-> 0,
                         detail |-> (k \notin {1, 2}) /\ builder.detail,
                         skipdata |-> (k = 0) /\ builder.skipdata,
                         arch |-> builder.arch, api |-> "handle"]]
       IN  /\ engines' = IF rOpen # OK THEN engines
                         ELSE IF BuildDropsHandle(rOpen, rDet, rSkip) THEN CsClose(opened, e)
                         ELSE opened
           /\ handles' = IF res.result = "Ok" THEN [handles EXCEPT ![s] = e] ELSE handles
           /\ trace' = BuildCalls(e, builder, rOpen, rDet, rSkip)
           /\ last' = [NoLast EXCEPT !.op = "build", !.result = res.result, !.err = res.err,
                                      !.ret = IF rOpen = OK THEN e ELSE 0, !.slot = s,
                                      !.called = builder.called]
    /\ builder' = NoBuilder
    /\ pc' = "returned"
    /\ UNCHANGED <<arrays, buffers, walk, held>>

\* Drop for Handle
DropHandle(s) ==
    /\ Idle
    /\ handles[s] # Vacant
    /\ engines' = CsClose(engines, handles[s])
    /\ trace' = <<Ev("cs_close", handles[s], <<>>, OK, IsOpen(engines, handles[s]))>>
    /\ handles' = [handles EXCEPT ![s] = Vacant]
    /\ last' = [NoLast EXCEPT !.op = "drop_handle", !.slot = s, !.ret = handles[s]]
    /\ pc' = "returned"
    /\ UNCHANGED <<builder, arrays, buffers, walk, held>>

----------------------------------------------------------------------------
(* Batch disassembler: Handle::disasm and the Instructions buffer *)

\* The element count disasm hands to Instructions::from_parts, given the
\* engine's return value insn_count and the requested count.
DisasmCount(insn_count, count) == count

FreshArrays == {a \in ArrayIds : arrays[a].st = "none"}

\* fail: "none", or "mem" (the engine runs out of memory and returns 0), or
\* "crash" (a call on an instance that was closed may bring the process down)
FreeBufferSlot(b) == ~buffers[b].live /\ \A c \in BufferSlots : c < b => buffers[c].live

Disasm(s, b, code, addr, count, fail, dataDetail) ==
    /\ Idle
    /\ OneHandle
    /\ NoBuffers
    /\ handles[s] # Vacant
    /\ FreeBufferSlot(b)
    /\ FreshArrays # {}
    /\ LET h == handles[s]
           open == IsOpen(engines, h)
           a == CHOOSE x \in FreshArrays : \A y \in FreshArrays : x <= y
           recs == IF fail # "none" THEN <<>>
                   ELSE EngineRecords(DecodeAll(code, addr, open /\ engines[h].skipdata, count),
                                      engines[h], dataDetail)
           insn_count == Len(recs)
           errno == IF fail = "mem" THEN "CS_ERR_MEM" ELSE OK
           call == Ev("cs_disasm", h, <<Len(code), addr, count>>, insn_count, open)
       IN  /\ fail = "crash" => ~open
           /\ dataDetail => (fail = "none" /\ engines[h].detail /\ engines[h].skipdata)
           /\ IF fail = "crash"
              THEN /\ pc' = "crashed"
                   /\ trace' = <<call>>
                   /\ last' = [NoLast EXCEPT !.op = "disasm", !.req = count]
                   /\ UNCHANGED <<arrays, buffers>>
              ELSE IF insn_count = 0
              THEN /\ trace' = <<call, Ev("cs_errno", h, <<>>, errno, open)>>
                   /\ last' = [NoLast EXCEPT !.op = "disasm", !.result = "Err",
                                             !.err = errno, !.req = count, !.code = code]
                   /\ pc' = "returned"
                   /\ UNCHANGED <<arrays, buffers>>
              ELSE /\ trace' = <<call>>
                   /\ arrays' = [arrays EXCEPT ![a] =
                                   [st |-> "live", n |-> insn_count, recs |-> recs,
                                    frees |-> 0, freedWith |-> 0,
                                    detailOn |-> engines[h].detail]]
                   /\ buffers' = [buffers EXCEPT ![b] =
                                   [live |-> TRUE, ptr |-> a,
                                    count |-> DisasmCount(insn_count, count),
                                    via |-> "disasm"]]
                   /\ last' = [NoLast EXCEPT !.op = "disasm", !.result = "Ok",
                                             !.ret = insn_count, !.req = count,
                                             !.slot = b, !.ptr = a, !.via = "disasm",
                                             !.code = code]
                   /\ pc' = "returned"
    /\ UNCHANGED <<builder, engines, handles, walk, held>>

OutOfBounds == [NoRecord EXCEPT !.mnemonic = "<out of bounds>"]

\* Instructions::as_slice: slice::from_raw_parts(ptr, count) over the array
\* the engine allocated; an index past the allocation reads out of bounds.
AsSlice(buf) ==
    [i \in 1..buf.count |->
        IF buf.ptr \in ArrayIds /\ i <= arrays[buf.ptr].n
        THEN arrays[buf.ptr].recs[i] ELSE OutOfBounds]

\* What a read past the end of the allocation may find in the fields that
\* detail() looks at.
GarbageInsns ==
    {[OutOfBounds EXCEPT !.id = id, !.detail = d] :
        id \in {0, InsnId(85)}, d \in {NullDetail, [null |-> FALSE, arch |-> "none"]}}

\* as_slice()[i - 1]: the i-th element of the slice, which lies in the
\* engine's array or past its end
ReadInsn(buf, i, garbage) ==
    IF buf.ptr \in ArrayIds /\ arrays[buf.ptr].st = "live" /\ i <= arrays[buf.ptr].n
    THEN arrays[buf.ptr].recs[i] ELSE garbage

InBounds(buf, i) ==
    buf.ptr \in ArrayIds /\ arrays[buf.ptr].st = "live" /\ i <= arrays[buf.ptr].n

\* buffer.as_slice()[i - 1].detail()
CallDetail(b, i, garbage) ==
    /\ Idle
    /\ buffers[b].live
    /\ i \in 1..buffers[b].count
    /\ InBounds(buffers[b], i) => garbage = OutOfBounds
    /\ LET insn == ReadInsn(buffers[b], i, garbage)
       IN  last' = [NoLast EXCEPT !.op = "detail", !.slot = b, !.ptr = buffers[b].ptr,
                                  !.req = i, !.insn = insn, !.result = Detail(insn),
                                  !.detailOn = arrays[buffers[b].ptr].detailOn]
    /\ trace' = <<>>
    /\ pc' = "returned"
    /\ UNCHANGED <<builder, engines, handles, arrays, buffers, walk, held>>

\* cs_free(insn, count), as the engine's bookkeeping of the array
CsFree(arr, ptr, count) ==
    IF ptr \in ArrayIds
    THEN [arr EXCEPT ![ptr].st = "freed", ![ptr].frees = @ + 1, ![ptr].freedWith = count,
                     ![ptr].recs = <<>>]
    ELSE arr

\* Drop for Instructions
DropBuffer(b) ==
    /\ Idle
    /\ buffers[b].live
    /\ arrays' = CsFree(arrays, buffers[b].ptr, buffers[b].count)
    /\ trace' = <<Ev("cs_free", 0, <<buffers[b].ptr, buffers[b].count>>, 0, TRUE)>>
    /\ last' = [NoLast EXCEPT !.op = "drop_buffer", !.slot = b, !.ptr = buffers[b].ptr,
                              !.req = buffers[b].count, !.via = buffers[b].via]
    /\ buffers' = [buffers EXCEPT ![b] = NoBuffer]
    /\ pc' = "returned"
    /\ UNCHANGED <<builder, engines, handles, walk, held>>

----------------------------------------------------------------------------
(* Streaming walker: Handle::walk_insts, one action per step of its loop.  *)
(* The handle is mutably borrowed for the whole call, so nothing else runs *)
(* until the call has returned or unwound.                                 *)

\* walk_insts reporting a walk that visited nothing as an error
WalkReturn_ErrOnEmpty(w) == IF w.steps = 0 THEN "Err" ELSE "Ok"

\* The value walk_insts returns once its loop has ended.
WalkReturn(w) == "Ok"

\* let insn = cs_malloc(&mut self.0): the slot is asked of this handle's
\* engine; null models the engine out of memory
WalkStart(s, code, addr, null, dataDetail) ==
    /\ Idle
    /\ OneHandle
    /\ NoBuffers
    /\ handles[s] # Vacant
    /\ dataDetail => (~null /\ engines[handles[s]].detail /\ engines[handles[s]].skipdata)
    /\ walk' = [NoWalk EXCEPT !.h = handles[s], !.code = code, !.addr = addr,
                              !.slot = IF null THEN "null" ELSE "ok",
                              !.dataDetail = dataDetail]
    /\ trace' = <<Ev("cs_malloc", handles[s], <<>>, IF null THEN "null" ELSE "slot",
                     IsOpen(engines, handles[s]))>>
    /\ last' = [NoLast EXCEPT !.op = "walk", !.slot = s]
    /\ pc' = "step"
    /\ UNCHANGED <<builder, engines, handles, arrays, buffers, held>>

\* the loop without the call of f in its body
AfterStep_SkipsVisit(ok) == IF ok THEN "step" ELSE "free"

\* Where the loop goes on the engine's answer: into the body, or past the loop.
AfterStep(ok) == IF ok THEN "visit" ELSE "free"

\* a step that reports success and leaves the cursor where it was
CursorAfter_Stuck(off, r) == off

\* &mut code_ptr, &mut code_sz: a successful step moves the cursor past the
\* bytes of the record it produced
CursorAfter(off, r) == off + r.size

\* while cs_disasm_iter(handle, &mut code_ptr, &mut code_sz, &mut addr, insn)
\* A step into a null slot writes through the null pointer: the process
\* crashes, or the engine returns false.
WalkStep(crash) ==
    /\ pc = "step"
    /\ crash => walk.slot = "null"
    /\ LET open == IsOpen(engines, walk.h)
           r == IF walk.slot = "null" THEN NoRecord
                ELSE EngineRecord(DecodeAt(walk.code, walk.off, walk.addr,
                                           open /\ engines[walk.h].skipdata),
                                  engines[walk.h], walk.dataDetail)
           call == Ev("cs_disasm_iter", walk.h, <<walk.off, walk.addr, walk.slot>>, r.ok, open)
       IN  /\ trace' = Append(trace, call)
           /\ IF crash
              THEN /\ pc' = "crashed"
                   /\ walk' = [walk EXCEPT !.result = "Crash"]
              ELSE /\ pc' = AfterStep(r.ok)
                   /\ walk' = IF r.ok
                              THEN [walk EXCEPT !.cur = r, !.off = CursorAfter(walk.off, r),
                                                !.addr = @ + r.size, !.steps = @ + 1]
                              ELSE [walk EXCEPT !.failed = TRUE]
    /\ UNCHANGED <<builder, engines, handles, arrays, buffers, last, held>>

\* f(&*insn): the callback sees the slot's current contents and asks it for
\* its detail; it returns, or it panics and walk_insts unwinds from inside
\* the loop.
WalkVisit(panics) ==
    /\ pc = "visit"
    /\ trace' = Append(trace, Ev("visit", walk.h, walk.cur, IF panics THEN "panic" ELSE "return", TRUE))
    /\ walk' = [walk EXCEPT !.visits = Append(@, walk.cur),
                            !.details = Append(@, Detail(walk.cur)),
                            !.result = IF panics THEN "Unwind" ELSE @]
    /\ pc' = IF panics THEN "returned" ELSE "step"
    /\ UNCHANGED <<builder, engines, handles, arrays, buffers, last, held>>

\* cs_free(insn, 1); Ok(())
\* Freeing a null slot reads insn[0].detail through the null pointer: the
\* process crashes, or nothing happens.
WalkFinish(crash) ==
    /\ pc = "free"
    /\ crash => walk.slot = "null"
    /\ trace' = Append(trace, Ev("cs_free", 0, <<walk.slot, 1>>, 0, TRUE))
    /\ IF crash
       THEN /\ pc' = "crashed"
            /\ walk' = [walk EXCEPT !.result = "Crash"]
       ELSE /\ pc' = "returned"
            /\ walk' = [walk EXCEPT !.slotFrees = IF walk.slot = "ok" THEN @ + 1 ELSE @,
                                    !.result = WalkReturn(walk)]
    /\ UNCHANGED <<builder, engines, handles, arrays, buffers, last, held>>

----------------------------------------------------------------------------
(* The detail block: InsnDetail, its architecture payload and the operands *)

\* the caller has Some(detail) of the i-th element of buffer b
HasDetail(b, i) ==
    /\ buffers[b].live
    /\ i \in 1..buffers[b].count
    /\ InBounds(buffers[b], i)
    /\ Detail(ReadInsn(buffers[b], i, OutOfBounds)) = "Some"

\* InsnDetail::data_x86 / data_arm / data_ppc: a transmute of arch_data
Projections == {"data_x86", "data_arm", "data_ppc"}

ProjectionArch(proj) ==
    CASE proj = "data_x86" -> "ARCH_X86"
      [] proj = "data_arm" -> "ARCH_ARM"
      [] proj = "data_ppc" -> "ARCH_PPC"

\* unsafe { insn.detail().unwrap().data_x86() } (or data_arm, data_ppc):
\* nothing but the caller's choice selects the projection
DataArch(b, i, proj) ==
    /\ Idle
    /\ HasDetail(b, i)
    /\ last' = [NoLast EXCEPT !.op = "data", !.slot = b, !.ptr = buffers[b].ptr, !.req = i,
                              !.insn = ReadInsn(buffers[b], i, OutOfBounds), !.via = proj,
                              !.result = "Ok"]
    /\ trace' = <<>>
    /\ pc' = "returned"
    /\ UNCHANGED <<builder, engines, handles, arrays, buffers, walk, held>>

GroupsCapacity == 8
X86OperandsCapacity == 8
PPCOperandsCapacity == 8
ARMOperandsCapacity == 36

Accessors == {"groups", "x86_operands", "arm_operands", "ppc_operands"}

Capacity(acc) ==
    CASE acc = "groups" -> GroupsCapacity
      [] acc = "x86_operands" -> X86OperandsCapacity
      [] acc = "arm_operands" -> ARMOperandsCapacity
      [] acc = "ppc_operands" -> PPCOperandsCapacity

\* The fixed-size array behind an accessor. Its j-th entry is written j here;
\* the entries from the count on are whatever an earlier decode left there.
Backing(acc) == [j \in 1..Capacity(acc) |-> j]

\* Values of the count field: what the engine writes (at most the capacity)
\* and, for a block read through the wrong projection, anything.
CountValues(acc) == {0, 1, 2, Capacity(acc), Capacity(acc) + 1}

\* an accessor handing out the whole backing array
BoundedView_Full(backing, count) == [panic |-> FALSE, view |-> backing]

\* &self.groups[0..self.groups_count as usize] (likewise operands/op_count):
\* the range is checked against the array's length and the index panics
\* when it ends past it.
BoundedView(backing, count) ==
    IF count > Len(backing)
    THEN [panic |-> TRUE, view |-> <<>>]
    ELSE [panic |-> FALSE, view |-> SubSeq(backing, 1, count)]

\* detail.groups(), or detail.data_<arch>().operands(), on a block whose
\* count field holds count
CountedView(b, i, acc, count) ==
    /\ Idle
    /\ HasDetail(b, i)
    /\ LET v == BoundedView(Backing(acc), count)
       IN  last' = [NoLast EXCEPT !.op = "view", !.slot = b, !.ptr = buffers[b].ptr,
                                  !.via = acc, !.req = count, !.view = v.view,
                                  !.result = IF v.panic THEN "Panic" ELSE "Ok"]
    /\ trace' = <<>>
    /\ pc' = "returned"
    /\ UNCHANGED <<builder, engines, handles, arrays, buffers, walk, held>>

\* Operand type tags the binding declares
X86_OP_IMM == 2
PPC_OP_IMM == 2
ARM_OP_REG == 1
ARM_OP_IMM == 2
ARM_OP_MEM == 3
ARM_OP_CIMM == 64
ARM_OP_PIMM == 65
ARM_OP_SYSREG == 67

\* The discriminants of X86OpType, ARMOpType and PPCOpType
OpTypes(proj) ==
    CASE proj = "data_x86" -> 0..4
      [] proj = "data_arm" -> (0..4) \cup (64..67)
      [] proj = "data_ppc" -> 0..3

\* Tag values the engine may store in an operand: the declared ones, and
\* values the binding's enums do not declare (such as the engine's
\* PPC_OP_CRX = 64).
TagValues == (0..5) \cup (64..68)

\* The variants of X86OpData, ARMOpData and PPCOpData
OpDataVariants(proj) ==
    CASE proj = "data_x86" -> {"Imm", "Other"}
      [] proj = "data_arm" -> {"Imm", "Reg", "Sysreg", "Mem", "Other"}
      [] proj = "data_ppc" -> {"Imm", "Other"}

\* The tags data() has an arm for
HandledTags(proj) ==
    CASE proj = "data_x86" -> {X86_OP_IMM}
      [] proj = "data_arm" -> {ARM_OP_IMM, ARM_OP_REG, ARM_OP_SYSREG, ARM_OP_MEM,
                               ARM_OP_PIMM, ARM_OP_CIMM}
      [] proj = "data_ppc" -> {PPC_OP_IMM}

\* match self.ty { .. , _ => Other } for a tag that is a declared discriminant
DataMatch(proj, ty) ==
    CASE proj = "data_x86" -> IF ty = X86_OP_IMM THEN "Imm" ELSE "Other"
      [] proj = "data_ppc" -> IF ty = PPC_OP_IMM THEN "Imm" ELSE "Other"
      [] proj = "data_arm" ->
            CASE ty = ARM_OP_IMM -> "Imm"
              [] ty = ARM_OP_REG -> "Reg"
              [] ty = ARM_OP_SYSREG -> "Sysreg"
              [] ty = ARM_OP_MEM -> "Mem"
              [] ty = ARM_OP_PIMM -> "Imm"
              [] ty = ARM_OP_CIMM -> "Imm"
              [] OTHER -> "Other"

\* X86Op::data / ARMOp::data / PPCOp::data. The field ty has the enum type,
\* so a tag that is no declared discriminant is an invalid value of it and
\* the match on it is undefined: ub is the variant the build ends up in.
OpData(proj, ty, ub) == IF ty \in OpTypes(proj) THEN DataMatch(proj, ty) ELSE ub

\* Size in bytes of the operand's payload: data: [u64; 3], [u64; 2], [u32; 3]
PayloadBytes(proj) ==
    CASE proj = "data_x86" -> 24
      [] proj = "data_arm" -> 16
      [] proj = "data_ppc" -> 12

\* Bytes of the payload read to build the variant: data_imm reads an i64
\* (x86) or a u32 (PPC), data_raw a u32, and Mem is a transmute of all of data
BytesRead(proj, variant) ==
    CASE variant = "Other" -> 0
      [] variant = "Mem" -> 16
      [] variant = "Imm" /\ proj = "data_x86" -> 8
      [] OTHER -> 4

\* operand.data() on an operand of the payload obtained through proj whose
\* tag holds ty
CallOpData(b, i, proj, ty, ub) ==
    /\ Idle
    /\ HasDetail(b, i)
    /\ ty \in OpTypes(proj) => ub = "Other"
    /\ LET variant == OpData(proj, ty, ub)
       IN  last' = [NoLast EXCEPT !.op = "op_data", !.slot = b, !.ptr = buffers[b].ptr,
                                  !.via = proj, !.req = ty, !.result = variant,
                                  !.ret = BytesRead(proj, variant)]
    /\ trace' = <<>>
    /\ pc' = "returned"
    /\ UNCHANGED <<builder, engines, handles, arrays, buffers, walk, held>>

\* The discriminants of ARMReg: ARM_REG_INVALID = 0 up to ARM_REG_ENDING = 111
ARMRegValues == 0..111

\* The discriminants of ARMSysreg: INVALID, the SPSR_* and CPSR_* flag
\* values, and ARM_SYSREG_APSR = 256 up to ARM_SYSREG_CONTROL = 278
ARMSysregValues == {0, 1, 2, 4, 8, 16, 32, 64, 128} \cup (256..278)

\* First payload words (data[0]: u64, as its low and high 32 bits) the
\* engine may leave in an ARM operand: register numbers, single flags,
\* OR-combined flags (3 = SPSR_C|SPSR_X, 144 = CPSR_C|CPSR_F), values next
\* to the ends of the enums, and a word whose upper half is not zero.
ArmPayloads ==
    {[lo |-> x, hi |-> 0] : x \in {0, 1, 3, 16, 111, 112, 144, 256, 278, 279}}
        \cup {[lo |-> 1, hi |-> 1]}

\* ARMOp::data_raw: the low 32 bits of data[0]
DataRaw(data0) == data0.lo

\* mem::transmute::<u32, ARMReg / ARMSysreg>: the same bits, typed as the enum
TransmuteU32(raw) == raw

\* operand.data() on an operand of an ARM payload whose tag is ARM_OP_REG or
\* ARM_OP_SYSREG and whose first payload word holds data0
CallArmRegData(b, i, ty, data0) ==
    /\ Idle
    /\ HasDetail(b, i)
    /\ ReadInsn(buffers[b], i, OutOfBounds).detail.arch = "ARCH_ARM"
    /\ ty \in {ARM_OP_REG, ARM_OP_SYSREG}
    /\ last' = [NoLast EXCEPT !.op = "arm_reg_data", !.slot = b, !.ptr = buffers[b].ptr,
                              !.via = "data_arm", !.req = ty, !.code = <<data0>>,
                              !.result = DataMatch("data_arm", ty),
                              !.ret = TransmuteU32(DataRaw(data0))]
    /\ trace' = <<>>
    /\ pc' = "returned"
    /\ UNCHANGED <<builder, engines, handles, arrays, buffers, walk, held>>

----------------------------------------------------------------------------
(* The legacy binding: Capstone, its Instructions and InstructionIterator, *)
(* and the views a caller keeps of the records of a buffer                 *)

ApiOf(s) == IF handles[s] \in EngineIds THEN engines[handles[s]].api ELSE "none"

\* Capstone::new(ARCH_X86, mode)
CapstoneNew(s, rOpen) ==
    /\ Idle
    /\ FreeHandleSlot(s)
    /\ FreshEngines # {}
    /\ LET e == CHOOSE x \in FreshEngines : \A y \in FreshEngines : x <= y
       IN  /\ engines' = IF rOpen # OK THEN engines
                         ELSE [engines EXCEPT ![e] =
                                 [st |-> "open", closes |-> 0, detail |-> FALSE,
                                  skipdata |-> FALSE, arch |-> "ARCH_X86",
                                  api |-> "capstone"]]
           /\ handles' = IF rOpen = OK THEN [handles EXCEPT ![s] = e] ELSE handles
           /\ trace' = <<Ev("cs_open", IF rOpen = OK THEN e ELSE 0, <<>>, rOpen, TRUE)>>
           /\ last' = [NoLast EXCEPT !.op = "capstone_new", !.slot = s,
                                      !.result = IF rOpen = OK THEN "Some" ELSE "None",
                                      !.ret = IF rOpen = OK THEN e ELSE 0]
    /\ pc' = "returned"
    /\ UNCHANGED <<builder, arrays, buffers, walk, held>>

\* Capstone::detail(active)
CapstoneDetail(s, active, r) ==
    /\ Idle
    /\ ApiOf(s) = "capstone"
    /\ NoBuffers
    /\ LET h == handles[s]
       IN  /\ engines' = IF r = OK THEN [engines EXCEPT ![h].detail = active] ELSE engines
           /\ trace' = <<Ev("cs_option", h, <<"CS_OPT_DETAIL", OptVal(active)>>, r,
                            IsOpen(engines, h))>>
           /\ last' = [NoLast EXCEPT !.op = "capstone_detail", !.slot = s,
                                      !.result = IF r = OK THEN "Ok" ELSE "Err",
                                      !.err = IF r = OK THEN "" ELSE r]
    /\ pc' = "returned"
    /\ UNCHANGED <<builder, handles, arrays, buffers, walk, held>>

\* Capstone::disasm: Instructions::from_raw_parts(ptr, insn_count)
CapstoneDisasm(s, b, code, addr, count) ==
    /\ Idle
    /\ OneHandle
    /\ NoBuffers
    /\ ApiOf(s) = "capstone"
    /\ FreeBufferSlot(b)
    /\ FreshArrays # {}
    /\ LET h == handles[s]
           open == IsOpen(engines, h)
           a == CHOOSE x \in FreshArrays : \A y \in FreshArrays : x <= y
           recs == EngineRecords(DecodeAll(code, addr, open /\ engines[h].skipdata, count),
                                 engines[h], FALSE)
           insn_count == Len(recs)
           calls == <<Ev("cs_disasm", h, <<Len(code), addr, count>>, insn_count, open),
                      Ev("cs_errno", h, <<>>, OK, open)>>
       IN  /\ trace' = calls
           /\ IF insn_count = 0
              THEN /\ last' = [NoLast EXCEPT !.op = "capstone_disasm", !.result = "None",
                                             !.req = count, !.code = code]
                   /\ UNCHANGED <<arrays, buffers>>
              ELSE /\ arrays' = [arrays EXCEPT ![a] =
                                   [st |-> "live", n |-> insn_count, recs |-> recs,
                                    frees |-> 0, freedWith |-> 0,
                                    detailOn |-> engines[h].detail]]
                   /\ buffers' = [buffers EXCEPT ![b] =
                                   [live |-> TRUE, ptr |-> a, count |-> insn_count,
                                    via |-> "legacy"]]
                   /\ last' = [NoLast EXCEPT !.op = "capstone_disasm", !.result = "Some",
                                             !.ret = insn_count, !.req = count,
                                             !.slot = b, !.ptr = a, !.via = "legacy",
                                             !.code = code]
    /\ pc' = "returned"
    /\ UNCHANGED <<builder, engines, handles, walk, held>>

\* Instructions::iter: the iterator borrows the buffer
Iter(b) ==
    /\ Idle
    /\ buffers[b].live
    /\ buffers[b].via = "legacy"
    /\ held.it = 0
    /\ held' = [held EXCEPT !.it = b, !.cur = 0, !.item = "none"]
    /\ UNCHANGED <<builder, engines, handles, arrays, buffers, walk, last, trace, pc>>

\* InstructionIterator::next: None at the end, else Some(ptr::read(obj)), a
\* copy of the record by value; keep says whether the caller stores the item
\* (as collect() does) or lets it go.
IterNext(keep) ==
    /\ Idle
    /\ held.it # 0
    /\ held.item # "None"
    /\ LET buf == buffers[held.it]
       IN  IF held.cur = buf.count
           THEN held' = [held EXCEPT !.item = "None"]
           ELSE held' = IF keep
                        THEN [held EXCEPT !.cur = @ + 1, !.item = "Some", !.kind = "copy",
                                          !.slot = held.it, !.ptr = buf.ptr,
                                          !.idx = held.cur + 1,
                                          !.insn = arrays[buf.ptr].recs[held.cur + 1]]
                        ELSE [held EXCEPT !.cur = @ + 1, !.item = "Some"]
    /\ UNCHANGED <<builder, engines, handles, arrays, buffers, walk, last, trace, pc>>

\* the iterator goes out of scope; its borrow of the buffer ends
IterDrop ==
    /\ Idle
    /\ held.it # 0
    /\ held' = [held EXCEPT !.it = 0, !.cur = 0, !.item = "none"]
    /\ UNCHANGED <<builder, engines, handles, arrays, buffers, walk, last, trace, pc>>

\* let insn = &buffer.as_slice()[i - 1]: a reference into the array, whose
\* lifetime is that of the borrow of the buffer
BorrowInsn(b, i) ==
    /\ Idle
    /\ buffers[b].live
    /\ buffers[b].via = "disasm"
    /\ i \in 1..buffers[b].count
    /\ InBounds(buffers[b], i)
    /\ held.kind = "none"
    /\ held' = [held EXCEPT !.kind = "borrow", !.slot = b, !.ptr = buffers[b].ptr,
                            !.idx = i, !.insn = ReadInsn(buffers[b], i, OutOfBounds)]
    /\ UNCHANGED <<builder, engines, handles, arrays, buffers, walk, last, trace, pc>>

\* the view the caller holds goes out of scope
ReleaseView ==
    /\ Idle
    /\ held.kind # "none"
    /\ held' = [held EXCEPT !.kind = "none", !.slot = 0, !.ptr = NullPtr, !.idx = 0,
                            !.insn = NoRecord]
    /\ UNCHANGED <<builder, engines, handles, arrays, buffers, walk, last, trace, pc>>

\* The borrow checker's rule: a buffer an iterator or a reference borrows
\* cannot be moved or dropped.
Borrowed(b) == held.it = b \/ (held.kind = "borrow" /\ held.slot = b)

----------------------------------------------------------------------------
(* Handle::group_name: the engine's answer is a nullable C string *)

GroupName(s, name) ==
    /\ Idle
    /\ handles[s] # Vacant
    /\ trace' = <<Ev("cs_group_name", handles[s], <<>>, name, IsOpen(engines, handles[s]))>>
    /\ last' = [NoLast EXCEPT !.op = "group_name", !.slot = s,
                              !.result = IF name = "" THEN "None" ELSE "Some"]
    /\ pc' = "returned"
    /\ UNCHANGED <<builder, engines, handles, arrays, buffers, walk, held>>

----------------------------------------------------------------------------
(* The #[doc(hidden)] public constructors *)

\* Handle::from(raw): a second Handle value for a raw handle number
FromRaw(s, h) ==
    /\ Idle
    /\ FreeHandleSlot(s)
    /\ IsOpen(engines, h)
    /\ handles' = [handles EXCEPT ![s] = h]
    /\ trace' = <<>>
    /\ last' = [NoLast EXCEPT !.op = "from_raw", !.slot = s, !.ret = h]
    /\ pc' = "returned"
    /\ UNCHANGED <<builder, engines, arrays, buffers, walk, held>>

\* Instructions::from_parts(ptr, count), with the pointer of a live buffer
\* (as_slice().as_ptr())
FromParts(b, src, count) ==
    /\ Idle
    /\ FreeBufferSlot(b)
    /\ buffers[src].live
    /\ buffers[src].ptr \in ArrayIds
    /\ arrays[buffers[src].ptr].st = "live"
    /\ buffers' = [buffers EXCEPT ![b] =
                     [live |-> TRUE, ptr |-> buffers[src].ptr, count |-> count,
                      via |-> "from_parts"]]
    /\ trace' = <<>>
    /\ last' = [NoLast EXCEPT !.op = "from_parts", !.slot = b, !.ptr = buffers[src].ptr,
                              !.req = count, !.via = "from_parts"]
    /\ pc' = "returned"
    /\ UNCHANGED <<builder, engines, handles, arrays, walk, held>>

----------------------------------------------------------------------------
(* The caller takes the result of the call that returned and goes on. What *)
(* the model recorded about the call is dropped, and so is the engine's    *)
(* bookkeeping of instances and arrays that nothing names any more.        *)

Named(h) == \E s \in HandleSlots : handles[s] = h
Pointed(a) ==
    \/ \E b \in BufferSlots : buffers[b].live /\ buffers[b].ptr = a
    \/ held.kind # "none" /\ held.ptr = a

CallerContinues ==
    /\ pc = "returned"
    /\ pc' = "idle"
    /\ last' = NoLast
    /\ trace' = <<>>
    /\ walk' = NoWalk
    /\ engines' = [e \in EngineIds |->
                     IF engines[e].st = "closed" /\ ~Named(e) THEN NoEngine ELSE engines[e]]
    /\ arrays' = [a \in ArrayIds |->
                     IF arrays[a].st = "freed" /\ ~Pointed(a) THEN NoArray ELSE arrays[a]]
    /\ UNCHANGED <<builder, handles, buffers, held>>

----------------------------------------------------------------------------
Next ==
    \/ BuilderNew("ARCH_X86")
    \/ BuilderSkipdata
    \/ BuilderDetail
    \/ \E s \in HandleSlots, rOpen \in OpenResults, rDet, rSkip \in OptionResults :
          Build(s, rOpen, rDet, rSkip)
    \/ \E s \in HandleSlots : DropHandle(s)
    \/ \E s \in HandleSlots, b \in BufferSlots, code \in Codes, addr \in BaseAddrs,
          count \in 0..MaxCount, fail \in {"none", "mem", "crash"} :
          Disasm(s, b, code, addr, count, fail, FALSE)
    \/ \E b \in BufferSlots : DropBuffer(b)
    \/ \E s \in HandleSlots, code \in Codes, addr \in BaseAddrs, null \in BOOLEAN :
          WalkStart(s, code, addr, null, FALSE)
    \/ \E crash \in BOOLEAN : WalkStep(crash)
    \/ \E panics \in BOOLEAN : WalkVisit(panics)
    \/ \E crash \in BOOLEAN : WalkFinish(crash)
    \/ \E s \in HandleSlots, name \in {"", "jump"} : GroupName(s, name)
    \/ CallerContinues

\* The documented API, driven by a caller that configures X86 handles
Spec == Init /\ [][Next]_vars

HiddenNext ==
    \/ \E s \in HandleSlots, h \in EngineIds : FromRaw(s, h)
    \/ \E b, src \in BufferSlots, count \in 0..MaxCount : FromParts(b, src, count)

\* The documented API together with the hidden public constructors
SpecHidden == Init /\ [][Next \/ HiddenNext]_vars

\* A caller that looks into the records it gets: it works with one handle
\* of any architecture and the buffer decoded with it at a time, its
\* callback returns, and the engine does not run out of memory.
NoHandles == \A s \in HandleSlots : handles[s] = Vacant

DetailNext ==
    \/ \E arch \in Archs : NoHandles /\ NoBuffers /\ BuilderNew(arch)
    \/ BuilderSkipdata
    \/ BuilderDetail
    \/ \E s \in HandleSlots, rDet \in OptionResults : Build(s, OK, rDet, OK)
    \/ \E s \in HandleSlots : DropHandle(s)
    \/ \E s \in HandleSlots, b \in BufferSlots, code \in Codes, addr \in BaseAddrs,
          count \in 0..MaxCount, dataDetail \in BOOLEAN :
          Disasm(s, b, code, addr, count, "none", dataDetail)
    \/ \E b \in BufferSlots : DropBuffer(b)
    \/ \E s \in HandleSlots, code \in Codes, addr \in BaseAddrs, dataDetail \in BOOLEAN :
          WalkStart(s, code, addr, FALSE, dataDetail)
    \/ WalkStep(FALSE)
    \/ WalkVisit(FALSE)
    \/ WalkFinish(FALSE)
    \/ \E b \in BufferSlots, i \in 1..MaxCount, garbage \in GarbageInsns :
          CallDetail(b, i, garbage)
    \/ \E b \in BufferSlots, i \in 1..MaxCount, proj \in Projections :
          DataArch(b, i, proj)
    \/ \E b \in BufferSlots, i \in 1..MaxCount, acc \in Accessors :
          \E count \in CountValues(acc) : CountedView(b, i, acc, count)
    \/ \E b \in BufferSlots, i \in 1..MaxCount, proj \in Projections, ty \in TagValues :
          \E ub \in OpDataVariants(proj) : CallOpData(b, i, proj, ty, ub)
    \/ \E b \in BufferSlots, i \in 1..MaxCount, ty \in {ARM_OP_REG, ARM_OP_SYSREG},
          data0 \in ArmPayloads : CallArmRegData(b, i, ty, data0)
    \/ CallerContinues

SpecDetail == Init /\ [][DetailNext]_vars

ViewsNext ==
    \/ NoHandles /\ NoBuffers /\ BuilderNew("ARCH_X86")
    \/ BuilderDetail
    \/ \E s \in HandleSlots : Build(s, OK, OK, OK)
    \/ \E s \in HandleSlots : NoHandles /\ NoBuffers /\ CapstoneNew(s, OK)
    \/ \E s \in HandleSlots, active \in BOOLEAN : CapstoneDetail(s, active, OK)
    \/ \E s \in HandleSlots : NoBuffers /\ DropHandle(s)
    \/ \E s \in HandleSlots, b \in BufferSlots, code \in Codes, addr \in BaseAddrs,
          count \in 0..MaxCount :
          ApiOf(s) = "handle" /\ Disasm(s, b, code, addr, count, "none", FALSE)
    \/ \E s \in HandleSlots, b \in BufferSlots, code \in Codes, addr \in BaseAddrs,
          count \in 0..MaxCount : CapstoneDisasm(s, b, code, addr, count)
    \/ \E b \in BufferSlots : Iter(b)
    \/ \E keep \in BOOLEAN : IterNext(keep)
    \/ IterDrop
    \/ \E b \in BufferSlots, i \in 1..MaxCount : BorrowInsn(b, i)
    \/ ReleaseView
    \/ \E b \in BufferSlots : ~Borrowed(b) /\ DropBuffer(b)
    \/ CallerContinues

\* A caller of either binding that keeps views of the records of a buffer:
\* one engine and one buffer at a time, nothing fails, handles are dropped
\* after their buffers.
SpecViews == Init /\ [][ViewsNext]_vars

\* The steps of a walk_insts call that is under way
WalkRuns ==
    \/ \E crash \in BOOLEAN : WalkStep(crash)
    \/ \E panics \in BOOLEAN : WalkVisit(panics)
    \/ \E crash \in BOOLEAN : WalkFinish(crash)

WalkNext ==
    \/ NoHandles /\ BuilderNew("ARCH_X86")
    \/ BuilderSkipdata
    \/ \E s \in HandleSlots : Build(s, OK, OK, OK)
    \/ \E s \in HandleSlots : DropHandle(s)
    \/ \E s \in HandleSlots, code \in Codes, addr \in BaseAddrs, null \in BOOLEAN :
          WalkStart(s, code, addr, null, FALSE)
    \/ WalkRuns
    \/ CallerContinues

\* A caller that walks code with one handle at a time. The code is
\* synchronous and single-threaded: a call that is under way takes its next
\* step (the engine's step returns and the callback returns or panics);
\* nothing obliges the caller to make another call.
SpecWalk == Init /\ [][WalkNext]_vars /\ WF_vars(WalkRuns)

----------------------------------------------------------------------------
(* Insn::mnemonic and Insn::op_str: the text fields of a record *)

NUL == 0

\* Bytes the engine may leave in a text field: NUL, 'm', the two bytes of
\* U+00E9 (c3 a9), and ff, which occurs in no UTF-8 text.
TextBytes == {NUL, 109, 195, 169, 255}

\* A text field as the engine leaves it: any bytes, closed by a NUL.
TextFields == {Append(t, NUL) : t \in [1..MaxText -> TextBytes]}

\* CStr::from_ptr(field.as_ptr()).to_bytes(): the bytes in front of the
\* first NUL
RECURSIVE ToBytes(_)
ToBytes(field) ==
    IF field = <<>> \/ Head(field) = NUL THEN <<>>
    ELSE <<Head(field)>> \o ToBytes(Tail(field))

\* Length of the UTF-8 sequence a lead byte opens, 0 for a byte that opens none
Utf8Width(b) ==
    CASE b < 128 -> 1
      [] b \in 194..223 -> 2
      [] b \in 224..239 -> 3
      [] b \in 240..244 -> 4
      [] OTHER -> 0

\* The range of the byte after a lead byte
Utf8Second(b) ==
    CASE b = 224 -> 160..191
      [] b = 237 -> 128..159
      [] b = 240 -> 144..191
      [] b = 244 -> 128..143
      [] OTHER -> 128..191

\* str::from_utf8(bytes).is_ok()
RECURSIVE Utf8Valid(_)
Utf8Valid(bs) ==
    IF bs = <<>> THEN TRUE
    ELSE LET w == Utf8Width(bs[1])
         IN  /\ w > 0
             /\ Len(bs) >= w
             /\ w >= 2 => bs[2] \in Utf8Second(bs[1])
             /\ \A k \in 3..w : bs[k] \in 128..191
             /\ Utf8Valid(SubSeq(bs, w + 1, Len(bs)))

\* the accessor built on from_utf8_unchecked
InsnText_Unchecked(field) == [some |-> TRUE, text |-> ToBytes(field)]

\* str::from_utf8(cstr.to_bytes()).ok()
InsnText(field) ==
    IF Utf8Valid(ToBytes(field))
    THEN [some |-> TRUE, text |-> ToBytes(field)]
    ELSE [some |-> FALSE, text |-> <<>>]

\* insn.mnemonic() on a record whose mnemonic field holds last.code
CallMnemonic ==
    /\ pc = "idle"
    /\ last.op = "text"
    /\ LET r == InsnText(last.code)
       IN  last' = [last EXCEPT !.op = "mnemonic", !.view = r.text,
                                !.result = IF r.some THEN "Some" ELSE "None"]
    /\ pc' = "returned"
    /\ UNCHANGED <<builder, engines, handles, arrays, buffers, walk, trace, held>>

\* insn.op_str() on a record whose op_str field holds last.code
CallOpStr ==
    /\ pc = "idle"
    /\ last.op = "text"
    /\ LET r == InsnText(last.code)
       IN  last' = [last EXCEPT !.op = "op_str", !.view = r.text,
                                !.result = IF r.some THEN "Some" ELSE "None"]
    /\ pc' = "returned"
    /\ UNCHANGED <<builder, engines, handles, arrays, buffers, walk, trace, held>>

\* The caller holds a record whose text field the engine filled in.
InitText ==
    /\ builder = NoBuilder
    /\ engines = [e \in EngineIds |-> NoEngine]
    /\ handles = [s \in HandleSlots |-> Vacant]
    /\ arrays = [a \in ArrayIds |-> NoArray]
    /\ buffers = [b \in BufferSlots |-> NoBuffer]
    /\ walk = NoWalk
    /\ \E field \in TextFields : last = [NoLast EXCEPT !.op = "text", !.code = field]
    /\ trace = <<>>
    /\ held = NoHeld
    /\ pc = "idle"

TextNext ==
    \/ CallMnemonic
    \/ CallOpStr

\* The text accessors applied to every content of a text field
SpecText == InitText /\ [][TextNext]_vars

----------------------------------------------------------------------------
(* Properties *)

Returned(op) == pc = "returned" /\ last.op = op

\* C1: after every successful Handle::disasm the number of records the
\* returned buffer exposes (as_slice().len()) is the element count the
\* engine's cs_disasm returned, whatever count was requested.
C1_SliceLenIsEngineCount ==
    (Returned("disasm") /\ last.result = "Ok")
        => Len(AsSlice(buffers[last.slot])) = last.ret

\* C2: when a buffer that disasm produced is dropped, cs_free is issued with
\* the number of records the engine allocated for the array.
C2_FreeCountIsEngineCount ==
    (Returned("drop_buffer") /\ last.via = "disasm")
        => /\ Len(trace) = 1
           /\ trace[1].fn = "cs_free"
           /\ trace[1].arg = <<last.ptr, arrays[last.ptr].n>>

\* C3: every array the engine allocated is passed to cs_free exactly once
\* when its owning buffer is gone, never twice and never zero times, also
\* for buffers built through from_parts.
C3_ArrayFreedExactlyOnce ==
    \A a \in ArrayIds :
        /\ arrays[a].frees <= 1
        /\ (arrays[a].st = "live") => Pointed(a)
        /\ (arrays[a].st # "none" /\ ~Pointed(a)) => arrays[a].frees = 1

\* C4: disasm returns Err with the status of cs_errno exactly when cs_disasm
\* returned 0; it never returns Ok with an empty buffer; on the error path
\* no buffer is created and cs_free is not called.
C4_ErrIffEngineCountZero ==
    Returned("disasm") =>
        /\ (last.result = "Err") <=> (trace[1].fn = "cs_disasm" /\ trace[1].ret = 0)
        /\ (last.result = "Err") =>
              /\ Len(trace) = 2
              /\ trace[2].fn = "cs_errno"
              /\ last.err = trace[2].ret
              /\ NoBuffers
              /\ \A a \in ArrayIds : arrays[a].st = "none"
        /\ (last.result = "Ok") => Len(AsSlice(buffers[last.slot])) > 0

Owners(e) == {s \in HandleSlots : handles[s] = e}

\* C5: every engine instance cs_open created is closed exactly once: an
\* open instance has exactly one Handle that will close it, an instance
\* without a Handle has been closed once, a build that returns early after
\* a successful open has closed the instance, and a failed open closes
\* nothing.
C5_EngineClosedExactlyOnce ==
    /\ \A e \in EngineIds :
          /\ engines[e].closes <= 1
          /\ (engines[e].st = "open") => (Cardinality(Owners(e)) = 1 /\ engines[e].closes = 0)
          /\ (engines[e].st = "closed") => (Owners(e) = {} /\ engines[e].closes = 1)
          /\ (engines[e].st = "none") => (Owners(e) = {} /\ engines[e].closes = 0)
    /\ (Returned("build") /\ last.result = "Err") =>
          IF trace[1].ret = OK
          THEN /\ engines[last.ret].st = "closed"
               /\ engines[last.ret].closes = 1
               /\ trace[Len(trace)].fn = "cs_close"
               /\ trace[Len(trace)].h = last.ret
          ELSE \A i \in 1..Len(trace) : trace[i].fn # "cs_close"
    /\ Returned("drop_handle") =>
          /\ engines[last.ret].st = "closed"
          /\ engines[last.ret].closes = 1

C5_Witness ==
    /\ Returned("build")
    /\ last.result = "Err"
    /\ trace[1].ret = OK
    /\ engines[last.ret].closes = 1

EngineUseCalls ==
    {"cs_disasm", "cs_disasm_iter", "cs_malloc", "cs_option", "cs_errno", "cs_group_name"}

\* C6: no engine call is issued with a handle value that has been closed,
\* and no two live Handle values name the same engine instance.
C6_NoUseAfterCloseNoAlias ==
    /\ \A i \in 1..Len(trace) : trace[i].fn \in EngineUseCalls => trace[i].live
    /\ \A s, t \in HandleSlots : (s # t /\ handles[s] # Vacant) => handles[s] # handles[t]

ConfigCalls == SelectSeq(trace, LAMBDA ev : ev.fn \in {"cs_open", "cs_option"})

\* C7: build returns Err with the status of the first step the engine
\* rejects (open, DETAIL, SKIPDATA, in that order) and issues no later
\* step; it returns Ok only when all three returned CS_ERR_OK.
C7_BuildStopsAtFirstRejection ==
    Returned("build") =>
        LET calls == ConfigCalls
            n == Len(calls)
        IN  /\ n \in 1..3
            /\ calls[1].fn = "cs_open"
            /\ n >= 2 => (calls[2].fn = "cs_option" /\ calls[2].arg[1] = "CS_OPT_DETAIL")
            /\ n >= 3 => (calls[3].fn = "cs_option" /\ calls[3].arg[1] = "CS_OPT_SKIPDATA")
            /\ \A i \in 1..n : calls[i].ret # OK =>
                  (i = n /\ last.result = "Err" /\ last.err = calls[i].ret)
            /\ (\A i \in 1..n : calls[i].ret = OK) => (n = 3 /\ last.result = "Ok")
            /\ (last.result = "Ok") => (n = 3 /\ \A i \in 1..n : calls[i].ret = OK)
            /\ last.result \in {"Ok", "Err"}

C7_Witness ==
    /\ Returned("build")
    /\ last.result = "Err"
    /\ Len(ConfigCalls) = 2
    /\ ConfigCalls[2].ret = "CS_ERR_OPTION"
    /\ last.err = "CS_ERR_OPTION"

\* C8: for every walk_insts call the slot obtained from cs_malloc is
\* released with cs_free(slot, 1) exactly once, on every exit path, also
\* when the callback unwinds in the middle of the walk.
C8_SlotFreedOnEveryExit ==
    (Returned("walk") /\ walk.slot = "ok") => walk.slotFrees = 1

\* C9: walk_insts returns Ok(()) whenever the engine's step signals
\* failure, also when nothing was visited; the end of the input is never
\* reported as an error.
C9_WalkEndsOk ==
    /\ (Returned("walk") /\ walk.failed) => walk.result = "Ok"
    /\ walk.result # "Err"
    /\ (pc = "free") => walk.failed

C9_Witness ==
    /\ Returned("walk")
    /\ walk.failed
    /\ walk.steps = 0
    /\ walk.slot = "ok"
    /\ walk.result = "Ok"

IsStep(ev, ok) == ev.fn = "cs_disasm_iter" /\ ev.ret = ok

\* C10: during walk_insts the slot is allocated once, before the first
\* step; the callback is invoked once after each successful step and
\* before the next step, in decode order; its k-th invocation sees the
\* k-th decoded instruction; it is never invoked after a failed step.
C10_VisitAfterEachStep ==
    (last.op = "walk") =>
        LET n == Len(trace)
            decoded == EngineRecords(
                           DecodeAll(walk.code, walk.addr - walk.off,
                                     IsOpen(engines, walk.h) /\ engines[walk.h].skipdata, 0),
                           engines[walk.h], walk.dataDetail)
            seen == SelectSeq(trace, LAMBDA ev : ev.fn = "visit")
        IN  /\ n >= 1
            /\ trace[1].fn = "cs_malloc"
            /\ \A i \in 2..n : trace[i].fn # "cs_malloc"
            /\ \A i \in 1..n : trace[i].fn = "visit" => (i > 1 /\ IsStep(trace[i - 1], TRUE))
            /\ \A i \in 1..(n - 1) : IsStep(trace[i], TRUE) => trace[i + 1].fn = "visit"
            /\ (pc = "step" /\ n > 1) => trace[n].fn = "visit"
            /\ \A i \in 1..n : IsStep(trace[i], FALSE) =>
                  \A j \in (i + 1)..n : trace[j].fn \notin {"visit", "cs_disasm_iter"}
            /\ Len(seen) = Len(walk.visits)
            /\ Len(seen) <= Len(decoded)
            /\ \A k \in 1..Len(seen) : seen[k].arg = decoded[k] /\ walk.visits[k] = decoded[k]

C10_Witness ==
    /\ Returned("walk")
    /\ walk.result = "Ok"
    /\ Len(walk.visits) = 2
    /\ walk.visits[1] # walk.visits[2]

Triple(r) == <<r.mnemonic, r.address, r.size>>
Triples(rs) == [i \in 1..Len(rs) |-> Triple(rs[i])]

\* What handle.disasm(code, addr, count) followed by as_slice() exposes when
\* the engine decodes with the given skipdata setting: the first
\* DisasmCount(..) elements starting at the array the engine allocated.
BatchSlice(code, addr, skipdata, count) ==
    LET recs == DecodeAll(code, addr, skipdata, count)
    IN  [i \in 1..DisasmCount(Len(recs), count) |->
            IF i <= Len(recs) THEN recs[i] ELSE OutOfBounds]

\* C11: for every input and base address on the same configured handle, the
\* (mnemonic, address, size) sequence the walk_insts callback collects is
\* the (mnemonic, address, size) sequence of the records exposed by the
\* buffer disasm returns for that input with count = 0.
C11_WalkEqualsBatch ==
    (Returned("walk") /\ walk.result = "Ok" /\ walk.slot = "ok" /\ Len(walk.visits) > 0) =>
        LET skipdata == IsOpen(engines, walk.h) /\ engines[walk.h].skipdata
        IN  Triples(walk.visits) =
                Triples(BatchSlice(walk.code, walk.addr - walk.off, skipdata, 0))


\* C12: Insn::detail() is None for every record whose id is 0, whether or
\* not its detail pointer is null and whether or not detail tracking is
\* on; the data record the engine produces for a truncated tail under
\* skipdata has id 0 and no detail.
C12_NoDetailForIdZero ==
    /\ (Returned("detail") /\ last.insn.id = 0) => last.result = "None"
    /\ (last.op = "walk") =>
          \A k \in 1..Len(walk.visits) :
              walk.visits[k].id = 0 => walk.details[k] = "None"
    /\ \A a \in ArrayIds : arrays[a].st = "live" =>
          \A i \in 1..arrays[a].n :
              arrays[a].recs[i].mnemonic = ".byte" =>
                  (arrays[a].recs[i].id = 0 /\ Detail(arrays[a].recs[i]) = "None")

C12_Witness ==
    /\ Returned("detail")
    /\ last.insn.ok
    /\ last.insn.mnemonic = ".byte"
    /\ last.insn.id = 0
    /\ ~last.insn.detail.null
    /\ last.detailOn
    /\ last.result = "None"

\* C13: for every record with id # 0 that a handle produced, Insn::detail()
\* is Some exactly when detail tracking was on for that handle when the
\* record was decoded; a handle built without .detail() gives None for
\* every record.
C13_DetailIffTracking ==
    /\ (Returned("detail") /\ last.insn.ok) =>
          /\ last.insn.id # 0 => (last.result = "Some" <=> last.detailOn)
          /\ ~last.detailOn => last.result = "None"
    /\ (last.op = "walk") =>
          \A k \in 1..Len(walk.visits) :
              /\ walk.visits[k].id # 0 =>
                    (walk.details[k] = "Some" <=> engines[walk.h].detail)
              /\ ~engines[walk.h].detail => walk.details[k] = "None"

C13_Witness ==
    /\ Returned("detail")
    /\ last.insn.ok
    /\ last.insn.id # 0
    /\ last.detailOn
    /\ last.result = "Some"

\* C15: a projection of a detail block (data_x86 / data_arm / data_ppc) is
\* only ever obtained for a record decoded by a handle that was configured
\* with that architecture.
C15_ProjectionMatchesHandleArch ==
    Returned("data") => ProjectionArch(last.via) = last.insn.detail.arch

\* C16: each count-bounded accessor (groups, x86/ARM/PPC operands) returns
\* exactly the first count entries of its backing array, in order: nothing
\* at an index >= count, and nothing past the array's capacity.
C16_ViewIsFirstCountEntries ==
    Returned("view") =>
        LET cap == Capacity(last.via)
            backing == Backing(last.via)
        IN  /\ Len(last.view) <= cap
            /\ Len(last.view) <= last.req
            /\ \A j \in 1..Len(last.view) : last.view[j] = backing[j]
            /\ last.req <= cap => (last.result = "Ok" /\ Len(last.view) = last.req)
            /\ last.req > cap => (last.result = "Panic" /\ last.view = <<>>)

C16_Witness ==
    /\ Returned("view")
    /\ last.via = "arm_operands"
    /\ last.req = 2
    /\ last.result = "Ok"
    /\ last.view = <<Backing("arm_operands")[1], Backing("arm_operands")[2]>>
    /\ Len(Backing("arm_operands")) = ARMOperandsCapacity

\* C14: for every x86, ARM and PPC operand and every value of its type tag,
\* data() completes with a variant, reads nothing outside the operand's
\* payload, and gives Other for every tag it has no named arm for.
C14_DataTotalAndOtherForUnknown ==
    Returned("op_data") =>
        /\ last.result \in OpDataVariants(last.via)
        /\ last.ret <= PayloadBytes(last.via)
        /\ last.req \notin HandledTags(last.via) => last.result = "Other"

RECURSIVE SumSizes(_)
SumSizes(rs) == IF rs = <<>> THEN 0 ELSE Head(rs).size + SumSizes(Tail(rs))

\* C17: for every successful batch decode, over the records the returned
\* buffer exposes, the sizes add up to at most the length of the input and
\* every address is strictly greater than the one before it.
C17_SizesFitAddressesGrow ==
    (Returned("disasm") /\ last.result = "Ok") =>
        LET exposed == AsSlice(buffers[last.slot])
        IN  /\ \A i \in 1..Len(exposed) : InBounds(buffers[last.slot], i)
            /\ SumSizes(exposed) <= Len(last.code)
            /\ \A i \in 2..Len(exposed) : exposed[i].address > exposed[i - 1].address

\* C18: batch-disassembling 55 48 8b 05 b8 13 00 00 (X86) at 0x1000 with
\* count = 0 gives a buffer of exactly 2 records: "push" at 0x1000 and
\* "mov" at 0x1001.
C18_TwoRecordsPushMov ==
    (Returned("disasm") /\ last.result = "Ok" /\ last.code = CODE /\ last.req = 0
        /\ trace[1].arg[2] = 4096) =>
        LET exposed == AsSlice(buffers[last.slot])
        IN  /\ Len(exposed) = 2
            /\ exposed[1].address = 4096 /\ exposed[1].mnemonic = "push"
            /\ exposed[2].address = 4097 /\ exposed[2].mnemonic = "mov"

\* C19: for disasm with max_count = N > 0 the returned buffer exposes at most
\* N records, and each of them is a record the engine decoded in that call.
C19_AtMostNAllDecoded ==
    (Returned("disasm") /\ last.result = "Ok" /\ last.req > 0) =>
        LET exposed == AsSlice(buffers[last.slot])
        IN  /\ Len(exposed) <= last.req
            /\ Len(exposed) <= trace[1].ret
            /\ \A i \in 1..Len(exposed) :
                  i <= arrays[last.ptr].n /\ exposed[i] = arrays[last.ptr].recs[i]

\* C20: when cs_malloc returns a null slot, walk_insts issues no decode step
\* against it and returns Err, never Ok(()).
C20_NullSlotIsErr ==
    (last.op = "walk" /\ walk.slot = "null") =>
        /\ \A i \in 1..Len(trace) : trace[i].fn # "cs_disasm_iter"
        /\ pc # "crashed"
        /\ (pc = "returned") => walk.result = "Err"

\* the UTF-8 texts over TextBytes: strings of 'm' and of c3 a9
Utf8Units == {<<109>>, <<195, 169>>}

RECURSIVE Utf8Texts(_)
Utf8Texts(n) ==
    IF n = 0 THEN {<<>>}
    ELSE LET shorter == Utf8Texts(n - 1)
         IN  shorter \cup {t \o u : t \in shorter, u \in Utf8Units}

\* the bytes of a field in front of its first NUL
UpToNul(field) ==
    LET k == CHOOSE j \in 1..Len(field) :
                 field[j] = NUL /\ \A i \in 1..(j - 1) : field[i] # NUL
    IN  SubSeq(field, 1, k - 1)

\* C21: Insn::mnemonic() and Insn::op_str() return None whenever the bytes
\* of the field in front of its NUL are not valid text and Some(the text up
\* to the first NUL) otherwise; they return in every case.
C21_TextOrNone ==
    (pc = "returned" /\ last.op \in {"mnemonic", "op_str"}) =>
        LET bs == UpToNul(last.code)
        IN  /\ last.result \in {"Some", "None"}
            /\ bs \in Utf8Texts(MaxText) => (last.result = "Some" /\ last.view = bs)
            /\ bs \notin Utf8Texts(MaxText) => last.result = "None"

C21_Witness ==
    /\ Returned("op_str")
    /\ last.code[1] = 109
    /\ last.code[2] = 255
    /\ last.result = "None"

\* the set_option calls of the last build, in order
OptionCalls == SelectSeq(trace, LAMBDA ev : ev.fn = "cs_option")

\* the value the claim gives an option: ON (3) iff its method was called
Wanted(method) == IF method \in last.called THEN 3 ELSE 0

\* C22 as stated: a fresh builder has both options off, and every build
\* whose open succeeded issues exactly one DETAIL set_option followed by
\* exactly one SKIPDATA set_option, each ON (3) iff the builder method was
\* called at least once and OFF (0) otherwise.
C22_AlwaysBothOptions ==
    /\ (builder.live /\ builder.called = {}) => (~builder.detail /\ ~builder.skipdata)
    /\ (Returned("build") /\ trace[1].ret = OK) =>
          /\ Len(OptionCalls) = 2
          /\ OptionCalls[1].arg = <<"CS_OPT_DETAIL", Wanted("detail")>>
          /\ OptionCalls[2].arg = <<"CS_OPT_SKIPDATA", Wanted("skipdata")>>

\* C22, amended: a fresh builder has both options off, and every build
\* whose open succeeded issues exactly one DETAIL set_option, followed,
\* unless the engine rejected DETAIL, by exactly one SKIPDATA set_option;
\* each is ON (3) iff the builder method was called at least once and OFF
\* (0) otherwise, whatever the order and repetition of the builder calls.
C22_OptionsFollowBuilderCalls ==
    /\ (builder.live /\ builder.called = {}) => (~builder.detail /\ ~builder.skipdata)
    /\ (Returned("build") /\ trace[1].ret = OK) =>
          /\ Len(OptionCalls) >= 1
          /\ OptionCalls[1].arg = <<"CS_OPT_DETAIL", Wanted("detail")>>
          /\ IF OptionCalls[1].ret = OK
             THEN /\ Len(OptionCalls) = 2
                  /\ OptionCalls[2].arg = <<"CS_OPT_SKIPDATA", Wanted("skipdata")>>
             ELSE Len(OptionCalls) = 1
    /\ (Returned("build") /\ trace[1].ret # OK) => OptionCalls = <<>>

C22_Witness ==
    /\ Returned("build")
    /\ last.called = {"skipdata"}
    /\ Len(OptionCalls) = 2
    /\ OptionCalls[1].arg = <<"CS_OPT_DETAIL", 0>>
    /\ OptionCalls[2].arg = <<"CS_OPT_SKIPDATA", 3>>
    /\ last.result = "Ok"

\* the variant the claim assigns to a tag
TagTable(proj, ty) ==
    IF proj \in {"data_x86", "data_ppc"}
    THEN (IF ty = 2 THEN {"Imm"} ELSE {"Other"})
    ELSE CASE ty \in {2, 64, 65} -> {"Imm"}
           [] ty = 1 -> {"Reg"}
           [] ty = 67 -> {"Sysreg"}
           [] ty = 3 -> {"Mem"}
           [] ty \in {0, 4, 66} -> {"Other"}
           [] OTHER -> OpDataVariants(proj)

\* C23: the variant data() returns is determined by the operand's type tag
\* alone: for x86 and PPC it is Imm exactly when the tag is the IMM tag and
\* Other for every other tag; for ARM it is Imm for IMM, PIMM and CIMM, Reg
\* for REG, Sysreg for SYSREG, Mem for MEM, and Other for INVALID, FP and
\* SETEND.
C23_VariantFollowsTag ==
    Returned("op_data") => last.result \in TagTable(last.via, last.req)

C25_WrappedValueIsDeclared ==
    Returned("arm_reg_data") =>
        /\ last.result = "Reg" => last.ret \in ARMRegValues
        /\ last.result = "Sysreg" => last.ret \in ARMSysregValues

\* C26: no detail block reached through a record obtained from a batch
\* buffer is readable after the buffer has been released: every reference
\* as_slice() handed out, and every record the legacy iterator yielded
\* that points to a detail block, is dead before the array is freed.
C26_NoViewOutlivesBuffer ==
    /\ held.kind = "borrow" => (held.ptr \in ArrayIds /\ arrays[held.ptr].st = "live")
    /\ (held.kind = "copy" /\ ~held.insn.detail.null) =>
          (held.ptr \in ArrayIds /\ arrays[held.ptr].st = "live")

====
